---- MODULE Spec2Model ----
(***************************************************************************)
(* RefineMixin.parse_refine_log of multiqc/modules/isoseq/refine.py as a   *)
(* state machine: the JSON loop, the per-row fold of every CSV file, the   *)
(* finalisation of each file's statistics, the two logger.error branches   *)
(* and the merge of json_data with csv_data.                               *)
(*                                                                         *)
(* Python floats are IEEE-754 binary64, modelled bit for bit: a float is   *)
(* NaN, an infinity, or a sign, a mantissa and an exponent, subnormals     *)
(* included; +, - and / round to nearest, ties to even, and overflow to    *)
(* an infinity.  Mantissas do not fit TLC's 32-bit integers, so naturals   *)
(* are kept as little-endian sequences of 15-bit limbs.                    *)
(***************************************************************************)
EXTENDS Integers, Sequences, FiniteSets, TLC

(***************************************************************************)
(* Natural numbers of arbitrary size: <<l1, ..., ln>> is the sum of        *)
(* l_i * LimbBase^(i-1), with no leading (high) zero limb; <<>> is zero.   *)
(***************************************************************************)
LimbBits == 15

LimbBase == 2^LimbBits

Limb(a, i) == IF i <= Len(a) THEN a[i] ELSE 0

RECURSIVE BTrim(_)
BTrim(a) ==
    IF a = <<>> THEN <<>>
    ELSE IF a[Len(a)] = 0 THEN BTrim(SubSeq(a, 1, Len(a) - 1)) ELSE a

BFromInt(n) ==
    IF n = 0 THEN <<>>
    ELSE IF n < LimbBase THEN <<n>>
    ELSE IF n < LimbBase * LimbBase THEN <<n % LimbBase, n \div LimbBase>>
    ELSE <<n % LimbBase, (n \div LimbBase) % LimbBase, n \div (LimbBase * LimbBase)>>

\* Limb-by-limb operations split their range of limbs in two, the low half
\* handing its carry to the high half (the high half its remainder to the
\* low half, in a division): the nesting is logarithmic in the length.

\* a sum of two limbs and a carry, or a product of a limb and a small
\* number and a carry, as a limb and a carry
LimbAndCarry(s) == [d |-> <<s % LimbBase>>, c |-> s \div LimbBase]

\* the limbs of the low half, then those of the high half
Joined(d, high) == [d |-> d \o high.d, c |-> high.c]

WithCarry(r) == IF r.c = 0 THEN r.d ELSE Append(r.d, r.c)

RECURSIVE BAddRange(_, _, _, _, _)
BAddHigh(a, b, low, lo, hi) == Joined(low.d, BAddRange(a, b, lo, hi, low.c))

\* limbs lo..hi of a + b, given the carry into limb lo
BAddRange(a, b, lo, hi, carry) ==
    IF lo > hi THEN [d |-> <<>>, c |-> carry]
    ELSE IF lo = hi THEN LimbAndCarry(Limb(a, lo) + Limb(b, lo) + carry)
    ELSE BAddHigh(a, b, BAddRange(a, b, lo, (lo + hi) \div 2, carry),
                  (lo + hi) \div 2 + 1, hi)

BAdd(a, b) ==
    WithCarry(BAddRange(a, b, 1, IF Len(a) < Len(b) THEN Len(b) ELSE Len(a), 0))

\* a difference of limbs, less the borrow, as a limb and a borrow
LimbAndBorrow(s) ==
    IF s < 0 THEN [d |-> <<s + LimbBase>>, c |-> 1] ELSE [d |-> <<s>>, c |-> 0]

RECURSIVE BSubRange(_, _, _, _, _)
BSubHigh(a, b, low, lo, hi) == Joined(low.d, BSubRange(a, b, lo, hi, low.c))

\* limbs lo..hi of a - b, given the borrow from limb lo
BSubRange(a, b, lo, hi, borrow) ==
    IF lo > hi THEN [d |-> <<>>, c |-> borrow]
    ELSE IF lo = hi THEN LimbAndBorrow(a[lo] - Limb(b, lo) - borrow)
    ELSE BSubHigh(a, b, BSubRange(a, b, lo, (lo + hi) \div 2, borrow),
                  (lo + hi) \div 2 + 1, hi)

\* a - b for a >= b
BSub(a, b) == BTrim(BSubRange(a, b, 1, Len(a), 0).d)

RECURSIVE BCmpFrom(_, _, _)
BCmpFrom(a, b, i) ==
    IF i = 0 THEN 0
    ELSE IF a[i] < b[i] THEN -1
    ELSE IF a[i] > b[i] THEN 1
    ELSE BCmpFrom(a, b, i - 1)

\* -1, 0 or 1 as a < b, a = b or a > b
BCmp(a, b) ==
    IF Len(a) < Len(b) THEN -1
    ELSE IF Len(a) > Len(b) THEN 1
    ELSE BCmpFrom(a, b, Len(a))

RECURSIVE BMulSmallRange(_, _, _, _, _)
BMulSmallHigh(a, k, low, lo, hi) == Joined(low.d, BMulSmallRange(a, k, lo, hi, low.c))

\* limbs lo..hi of a * k, given the carry into limb lo
BMulSmallRange(a, k, lo, hi, carry) ==
    IF lo > hi THEN [d |-> <<>>, c |-> carry]
    ELSE IF lo = hi THEN LimbAndCarry(a[lo] * k + carry)
    ELSE BMulSmallHigh(a, k, BMulSmallRange(a, k, lo, (lo + hi) \div 2, carry),
                       (lo + hi) \div 2 + 1, hi)

\* a * k for 0 <= k < LimbBase
BMulSmall(a, k) ==
    IF k = 0 THEN <<>> ELSE WithCarry(BMulSmallRange(a, k, 1, Len(a), 0))

BShiftLimbs(a, n) == IF a = <<>> THEN <<>> ELSE [i \in 1..n |-> 0] \o a

RECURSIVE BMulFrom(_, _, _)
BMulFrom(a, b, i) ==
    IF i > Len(b) THEN <<>>
    ELSE BAdd(BShiftLimbs(BMulSmall(a, b[i]), i - 1), BMulFrom(a, b, i + 1))

BMul(a, b) == BMulFrom(a, b, 1)

\* the digits of the high half, then those of the low half
BDivSmallJoined(high, low) == [q |-> high.q \o low.q, r |-> low.r]

RECURSIVE BDivSmallRange(_, _, _, _, _)
BDivSmallLow(a, k, high, lo, hi) ==
    BDivSmallJoined(high, BDivSmallRange(a, k, lo, hi, high.r))

\* limbs hi down to lo of the quotient of a by k, the highest first, and
\* the remainder below limb lo, given the remainder rem of the limbs
\* above hi
BDivSmallRange(a, k, lo, hi, rem) ==
    IF lo > hi THEN [q |-> <<>>, r |-> rem]
    ELSE IF lo = hi
    THEN [q |-> <<(rem * LimbBase + a[lo]) \div k>>, r |-> (rem * LimbBase + a[lo]) % k]
    ELSE BDivSmallLow(a, k, BDivSmallRange(a, k, (lo + hi) \div 2 + 1, hi, rem),
                      lo, (lo + hi) \div 2)

\* quotient and remainder of a by k, 0 < k <= LimbBase
BDivSmall(a, k) ==
    LET Reversed(s) == [i \in 1..Len(s) |-> s[Len(s) + 1 - i]]
        BDivSmallTrimmed(d) == [q |-> BTrim(Reversed(d.q)), r |-> d.r]
    IN  BDivSmallTrimmed(BDivSmallRange(a, k, 1, Len(a), 0))

\* a * 2^n
BShl(a, n) == BShiftLimbs(BMulSmall(a, 2^(n % LimbBits)), n \div LimbBits)

\* floor(a / 2^n)
BShr(a, n) ==
    LET drop == n \div LimbBits
    IN  IF drop >= Len(a) THEN <<>>
        ELSE BDivSmall(SubSeq(a, drop + 1, Len(a)), 2^(n % LimbBits)).q

RECURSIVE IntBitLen(_)
IntBitLen(n) == IF n = 0 THEN 0 ELSE 1 + IntBitLen(n \div 2)

BBitLen(a) == IF a = <<>> THEN 0 ELSE LimbBits * (Len(a) - 1) + IntBitLen(a[Len(a)])

BIsOdd(a) == a # <<>> /\ a[1] % 2 = 1

(***************************************************************************)
(* Python float: binary64.  cls is "nan", "inf" or "finite"; a finite      *)
(* value is (-1)^sign * mant * 2^exp, in one of three forms:               *)
(*   zero       mant = 0, exp = 0                                          *)
(*   normal     2^52 <= mant < 2^53, MinExp <= exp <= MaxExp               *)
(*   subnormal  0 < mant < 2^52, exp = MinExp                              *)
(* so that equal floats are equal records (0.0 and -0.0 differ in sign).   *)
(***************************************************************************)
Precision == 53

\* 2^MinExp is the least positive float
MinExp == 0 - 1074

\* (2^Precision - 1) * 2^MaxExp is the largest finite float
MaxExp == 971

NaN == [cls |-> "nan", sign |-> 0, mant |-> <<>>, exp |-> 0]

Inf(sign) == [cls |-> "inf", sign |-> sign, mant |-> <<>>, exp |-> 0]

PosInf == Inf(0)

NegInf == Inf(1)

FZero(sign) == [cls |-> "finite", sign |-> sign, mant |-> <<>>, exp |-> 0]

IsZero(x) == x.cls = "finite" /\ x.mant = <<>>

Finite(sign, mant, exp) == [cls |-> "finite", sign |-> sign, mant |-> mant, exp |-> exp]

\* a mantissa of Precision bits whose exponent is past MaxExp overflows
Bounded(sign, r, e) == IF e > MaxExp THEN Inf(sign) ELSE Finite(sign, r, e)

\* The float r * 2^e for 0 <= r <= 2^Precision, where r < 2^(Precision-1)
\* only if e = MinExp
Packed(sign, r, e) ==
    IF r = <<>> THEN FZero(sign)
    ELSE IF BBitLen(r) > Precision THEN Bounded(sign, BShr(r, 1), e + 1)
    ELSE Bounded(sign, r, e)

\* the number of low bits of a mantissa of len bits at exponent e that do
\* not fit a float: those past Precision, or those below 2^MinExp
RoundShift(len, e) ==
    IF len - Precision > MinExp - e THEN len - Precision ELSE MinExp - e

\* The float nearest to (-1)^sign * (m + t) * 2^e, where 0 <= t < 1 and
\* t > 0 exactly when sticky: round to nearest, ties to even, gradual
\* underflow, overflow to an infinity.  (With sticky, m has bits to drop.)
Round(sign, m, e, sticky) ==
    LET \* q2 is m without its low k - 1 bits: the kept bits and the first
        \* dropped one.  Round half up when anything is below it or the kept
        \* mantissa is odd.
        RoundedUp(k, q2) ==
            Packed(sign,
                   IF BIsOdd(q2) /\ (sticky \/ BIsOdd(BShr(q2, 1)) \/ BShl(q2, k - 1) # m)
                   THEN BAdd(BShr(q2, 1), <<1>>)
                   ELSE BShr(q2, 1),
                   e + k)
        \* k low bits of m do not fit
        RoundAt(k) ==
            IF m = <<>> THEN FZero(sign)
            ELSE IF k <= 0 THEN Packed(sign, BShl(m, 0 - k), e + k)
            ELSE RoundedUp(k, BShr(m, k - 1))
    IN  RoundAt(RoundShift(BBitLen(m), e))

\* abs(x)
FAbs(x) == IF x.cls = "nan" THEN x ELSE [x EXCEPT !.sign = 0]

\* x + y (float.__add__): never raises; inf + -inf is nan
FAdd(x, y) ==
    LET \* the sum of +-mx * 2^e and +-my * 2^e, the signs those of x and
        \* y, neither zero; c = BCmp(mx, my).  An exact zero sum is +0.0.
        FAddAligned(mx, my, e, c) ==
            Round(IF x.sign = y.sign \/ c > 0 THEN x.sign ELSE IF c < 0 THEN y.sign ELSE 0,
                  IF x.sign = y.sign THEN BAdd(mx, my)
                  ELSE IF c >= 0 THEN BSub(mx, my) ELSE BSub(my, mx),
                  e, FALSE)
        FAddShifted(mx, my, e) == FAddAligned(mx, my, e, BCmp(mx, my))
        \* both mantissas brought to the exponent e
        FAddAt(e) == FAddShifted(BShl(x.mant, x.exp - e), BShl(y.mant, y.exp - e), e)
        \* hi + lo for nonzero hi, lo with lo below a quarter of the last
        \* place of hi: of lo, the sum only keeps that it is not zero
        FAddFar(hi, lo) ==
            Round(hi.sign,
                  IF hi.sign = lo.sign THEN BShl(hi.mant, 2)
                  ELSE BSub(BShl(hi.mant, 2), <<1>>),
                  hi.exp - 2, TRUE)
        \* x + y for finite x, y
        FAddFinite ==
            IF IsZero(x) /\ IsZero(y) THEN FZero(IF x.sign = 1 /\ y.sign = 1 THEN 1 ELSE 0)
            ELSE IF IsZero(x) THEN y
            ELSE IF IsZero(y) THEN x
            ELSE IF x.exp - y.exp > Precision + 2 THEN FAddFar(x, y)
            ELSE IF y.exp - x.exp > Precision + 2 THEN FAddFar(y, x)
            ELSE FAddAt(IF x.exp < y.exp THEN x.exp ELSE y.exp)
    IN  IF x.cls = "nan" \/ y.cls = "nan" THEN NaN
        ELSE IF x.cls = "inf" THEN (IF y.cls = "inf" /\ y.sign # x.sign THEN NaN ELSE x)
        ELSE IF y.cls = "inf" THEN y
        ELSE FAddFinite

\* x - y (float.__sub__)
FSub(x, y) ==
    LET \* -v
        FNeg(v) == IF v.cls = "nan" THEN v ELSE [v EXCEPT !.sign = 1 - v.sign]
    IN  FAdd(x, FNeg(y))

DivGuardBits == 2 * LimbBits

\* x / n (float.__truediv__) for a Python int 0 < n < LimbBase: n is
\* converted to float exactly, and the quotient is rounded once
FDivInt(x, n) ==
    LET RoundQuotient(d, e) == Round(x.sign, d.q, e, d.r # 0)
    IN  IF x.cls # "finite" \/ IsZero(x) THEN x
        ELSE RoundQuotient(BDivSmall(BShl(x.mant, DivGuardBits), n), x.exp - DivGuardBits)

\* |x| < |y| for finite nonzero x, y
MagnitudeLess(x, y) ==
    IF x.exp # y.exp THEN x.exp < y.exp ELSE BCmp(x.mant, y.mant) < 0

\* x < y (float.__lt__): false when either is nan
FLess(x, y) ==
    IF x.cls = "nan" \/ y.cls = "nan" THEN FALSE
    ELSE IF x.cls = "inf" THEN x.sign = 1 /\ ~(y.cls = "inf" /\ y.sign = 1)
    ELSE IF y.cls = "inf" THEN y.sign = 0
    ELSE IF IsZero(x) THEN ~IsZero(y) /\ y.sign = 0
    ELSE IF IsZero(y) THEN x.sign = 1
    ELSE IF x.sign # y.sign THEN x.sign = 1
    ELSE IF x.sign = 0 THEN MagnitudeLess(x, y) ELSE MagnitudeLess(y, x)

\* x > 0
FPositive(x) == FLess(FZero(0), x)

\* min(a, b) of Python: b when b < a, else a
PyMin(a, b) == IF FLess(b, a) THEN b ELSE a

\* max(a, b) of Python: b when b > a, else a
PyMax(a, b) == IF FLess(a, b) THEN b ELSE a

(***************************************************************************)
(* value**2 is float.__pow__ with the int 2 converted to 2.0.  float_pow   *)
(* answers by itself for nan, the infinities and the zeros; for any other  *)
(* x it calls the C library's pow(|x|, 2.0) and raises OverflowError when  *)
(* that returns an infinity.  pow is not x * x: the library computes       *)
(* exp(2 log x) and may return either float next to the exact square when  *)
(* the square is not a float itself (with glibc 995.3**2 is one unit in    *)
(* the last place below 995.3 * 995.3).  Which of the two depends on the   *)
(* library and the processor, so the result is a choice between them; the  *)
(* library is a function, so the choice made for an argument is kept.      *)
(***************************************************************************)

\* what pow(a, 2.0) can return for a finite a > 0: the square if it is a
\* float, else the float below it or the one above (an infinity past the
\* largest float)
Pow2Outcomes(a) ==
    LET \* the exact square is m * 2^e, of which the low k bits do not fit; q is
        \* m without them
        PowNeighbours(m, e, k, q) ==
            IF BShl(q, k) = m THEN {Packed(0, q, e + k)}
            ELSE {Packed(0, q, e + k), Packed(0, BAdd(q, <<1>>), e + k)}
        PowShifted(m, e, k) ==
            IF k <= 0 THEN {Packed(0, BShl(m, 0 - k), e + k)}
            ELSE PowNeighbours(m, e, k, BShr(m, k))
        PowExact(m, e) == PowShifted(m, e, RoundShift(BBitLen(m), e))
    IN  PowExact(BMul(a.mant, a.mant), 2 * a.exp)

\* pow(a, 2.0) for a finite a > 0, given the table of the calls made so
\* far: the value returned and the table after the call
LibmCalls(memo, a) ==
    IF a \in DOMAIN memo THEN {[val |-> memo[a], libm |-> memo]}
    ELSE {[val |-> v, libm |-> [k \in DOMAIN memo \cup {a} |-> IF k = a THEN v ELSE memo[k]]] :
             v \in Pow2Outcomes(a)}

\* x**2: the value (an infinity for a finite x stands for OverflowError)
\* and the library's table after it
PowCalls(memo, x) ==
    IF x.cls = "nan" THEN {[val |-> NaN, libm |-> memo]}
    ELSE IF x.cls = "inf" THEN {[val |-> PosInf, libm |-> memo]}
    ELSE IF IsZero(x) THEN {[val |-> FZero(0), libm |-> memo]}
    ELSE LibmCalls(memo, FAbs(x))

\* float_pow raises OverflowError: pow returned an infinity for a finite x
PowOverflows(x, val) == x.cls = "finite" /\ val.cls = "inf"

(***************************************************************************)
(* math.sqrt: the correctly rounded root.                                  *)
(***************************************************************************)

\* floor(sqrt(n)) for a machine integer 0 <= n < LimbBase^2, by bisection:
\* lo*lo <= n < hi*hi throughout.
RECURSIVE IntSqrtBetween(_, _, _)
IntSqrtBetween(n, lo, hi) ==
    IF hi - lo <= 1 THEN lo
    ELSE LET mid == (lo + hi) \div 2
         IN  IF mid * mid <= n THEN IntSqrtBetween(n, mid, hi)
             ELSE IntSqrtBetween(n, lo, mid)

\* (2 * root * LimbBase + d) * d: what appending the digit d to root adds
\* to the square
SqrtStep(root, d) ==
    BMulSmall(BAdd(BShiftLimbs(BMulSmall(root, 2), 1), BFromInt(d)), d)

\* the largest digit d <= guess with SqrtStep(root, d) <= rem
RECURSIVE SqrtDigit(_, _, _)
SqrtDigit(root, rem, guess) ==
    IF guess = 0 \/ BCmp(SqrtStep(root, guess), rem) <= 0 THEN guess
    ELSE SqrtDigit(root, rem, guess - 1)

\* Long-hand square root in base LimbBase, one root limb for each pair of
\* limbs of m, from pair i down to pair 1.  rem = (limbs above pair i) -
\* root^2.  The first digit comes from the top pair alone; each later one is
\* first guessed from the leading limbs of rem / 2 and of root (never too
\* low), then lowered until it fits.
RECURSIVE SqrtPairs(_, _, _, _)
SqrtAppend(m, i, root, cur, d) ==
    SqrtPairs(m, i - 1, <<d>> \o root, BSub(cur, SqrtStep(root, d)))

SqrtNext(m, i, root, cur) ==
    LET \* the leading limbs of h = cur / 2 by the leading limb of root
        SqrtGuess(h) ==
            IF (Limb(h, Len(root) + 2) * LimbBase + Limb(h, Len(root) + 1))
                   \div root[Len(root)] < LimbBase
            THEN (Limb(h, Len(root) + 2) * LimbBase + Limb(h, Len(root) + 1))
                     \div root[Len(root)]
            ELSE LimbBase - 1
    IN  SqrtAppend(m, i, root, cur, SqrtDigit(root, cur, SqrtGuess(BShr(cur, 1))))

SqrtFirst(m, i, pair, d) == SqrtPairs(m, i - 1, BFromInt(d), BFromInt(pair - d * d))

SqrtPair(m, i, root, rem, pair) ==
    LET IntSqrt(n) == IntSqrtBetween(n, 0, LimbBase)
    IN  IF root = <<>> THEN SqrtFirst(m, i, pair, IntSqrt(pair))
        ELSE SqrtNext(m, i, root, BAdd(BShiftLimbs(rem, 2), BFromInt(pair)))

SqrtPairs(m, i, root, rem) ==
    IF i = 0 THEN [root |-> root, exact |-> rem = <<>>]
    ELSE SqrtPair(m, i, root, rem, Limb(m, 2 * i) * LimbBase + Limb(m, 2 * i - 1))

\* floor(sqrt(m)) and whether m is a perfect square, for m whose top pair
\* of limbs is at least LimbBase^2 / 4 (so that the root's top limb is at
\* least LimbBase / 2 and the digit guesses are close)
ISqrt(m) == SqrtPairs(m, (Len(m) + 1) \div 2, <<>>, <<>>)

SqrtLimbs == 8

\* the root of a finite x > 0
FSqrt(x) ==
    LET RoundRoot(s, e) == Round(0, s.root, e, ~s.exact)
        FSqrtShifted(shift) ==
            RoundRoot(ISqrt(BShl(x.mant, shift)), (x.exp - shift) \div 2)
        \* the shift that brings a mantissa of len bits to SqrtLimbs limbs,
        \* the top one or two bits aside, and leaves an even exponent
        SqrtShift(exp, len) ==
            IF (exp - (SqrtLimbs * LimbBits - 1 - len)) % 2 = 0
            THEN SqrtLimbs * LimbBits - 1 - len
            ELSE SqrtLimbs * LimbBits - len
    IN  FSqrtShifted(SqrtShift(x.exp, BBitLen(x.mant)))

\* math.sqrt(x): nan for nan, inf for inf, -0.0 for -0.0, and ValueError
\* ("math domain error") for x < 0
MathSqrt(x) ==
    LET MathDomainError == [ok |-> FALSE, val |-> NaN]
    IN  IF x.cls = "nan" \/ IsZero(x) THEN [ok |-> TRUE, val |-> x]
        ELSE IF x.sign = 1 THEN MathDomainError
        ELSE IF x.cls = "inf" THEN [ok |-> TRUE, val |-> x]
        ELSE [ok |-> TRUE, val |-> FSqrt(x)]

(***************************************************************************)
(* float(text) for the text of one CSV cell, a sequence of Unicode code    *)
(* points (PyFloat_FromString of CPython 3.11, Unicode 14.0):              *)
(*  1. every code point from 127 on becomes a blank if it is whitespace,   *)
(*     the ASCII digit of its value if it is a decimal digit, "?" if not;  *)
(*  2. ASCII whitespace is stripped from both ends;                        *)
(*  3. an underscore must stand between two digits, and is dropped;        *)
(*  4. what is left is an optional sign and then "inf", "infinity" or      *)
(*     "nan" in any case, or digits with at most one point and at least    *)
(*     one digit, and an optional exponent: e or E, an optional sign,      *)
(*     digits.                                                             *)
(* Anything else raises ValueError.  The decimal is rounded once, to the   *)
(* nearest float.                                                          *)
(***************************************************************************)

\* the digit zero of every script with decimal digits (category Nd); the
\* other nine digits follow it
DecimalZeros ==
    {48, 1632, 1776, 1984, 2406, 2534, 2662, 2790, 2918, 3046, 3174, 3302, 3430,
     3558, 3664, 3792, 3872, 4160, 4240, 6112, 6160, 6470, 6608, 6784, 6800, 6992,
     7088, 7232, 7248, 42528, 43216, 43264, 43472, 43504, 43600, 44016, 65296,
     66720, 68912, 69734, 69872, 69942, 70096, 70384, 70736, 70864, 71248, 71360,
     71472, 71904, 72016, 72784, 73040, 73120, 92768, 92864, 93008, 120782,
     120792, 120802, 120812, 120822, 123200, 123632, 125264, 130032}

Transformed(text) ==
    LET \* str.isspace() from 127 on
        UnicodeSpaces ==
            {133, 160, 5760, 8232, 8233, 8239, 8287, 12288} \cup (8192..8202)
        IsDecimal(c) == \E z \in DecimalZeros : z <= c /\ c <= z + 9
        DecimalValue(c) == c - (CHOOSE z \in DecimalZeros : z <= c /\ c <= z + 9)
        \* step 1 for one code point (32 is " ", 48 is "0", 63 is "?")
        ToAscii(c) ==
            IF c < 127 THEN c
            ELSE IF c \in UnicodeSpaces THEN 32
            ELSE IF IsDecimal(c) THEN 48 + DecimalValue(c)
            ELSE 63
    IN  [i \in 1..Len(text) |-> ToAscii(text[i])]

NonSpaces(s) ==
    LET \* Py_ISSPACE: tab, line feed, vertical tab, form feed, carriage return,
        \* space
        IsSpace(c) == c \in (9..13) \cup {32}
    IN  {i \in 1..Len(s) : ~IsSpace(s[i])}

LStrip(s) ==
    IF NonSpaces(s) = {} THEN <<>>
    ELSE SubSeq(s, CHOOSE i \in NonSpaces(s) : \A j \in NonSpaces(s) : i <= j, Len(s))

RStrip(s) ==
    IF NonSpaces(s) = {} THEN <<>>
    ELSE SubSeq(s, 1, CHOOSE i \in NonSpaces(s) : \A j \in NonSpaces(s) : j <= i)

\* "0" .. "9"
IsDigit(c) == 48 <= c /\ c <= 57

\* step 3 (95 is "_")
UnderscoresOk(s) ==
    \A i \in 1..Len(s) :
        s[i] = 95 => (i > 1 /\ i < Len(s) /\ IsDigit(s[i - 1]) /\ IsDigit(s[i + 1]))

NotUnderscore(c) == c # 95

Lowered(s) ==
    LET \* "A" .. "Z" to lower case
        Lower(c) == IF 65 <= c /\ c <= 90 THEN c + 32 ELSE c
    IN  [i \in 1..Len(s) |-> Lower(s[i])]

\* the number written by at most nine digits
RECURSIVE SmallNat(_)
SmallNat(s) ==
    LET DigitVal(c) == c - 48
    IN  IF s = <<>> THEN 0
        ELSE 10 * SmallNat(SubSeq(s, 1, Len(s) - 1)) + DigitVal(s[Len(s)])

DecChunk == 4

\* Long numbers are handled in two halves, the split at a multiple of
\* DecChunk digits: this many of k digits (or powers of ten) go in one half
HalfChunks(k) == DecChunk * ((k \div DecChunk + 1) \div 2)

\* m * 10^k
RECURSIVE MulPow10(_, _)
MulPow10(m, k) ==
    IF m = <<>> THEN <<>>
    ELSE IF k <= DecChunk THEN BMulSmall(m, 10^k)
    ELSE MulPow10(MulPow10(m, HalfChunks(k)), k - HalfChunks(k))

\* the number written by any number of digits
RECURSIVE DigitsToNat(_)
DigitsToNat(s) ==
    IF Len(s) <= DecChunk THEN BFromInt(SmallNat(s))
    ELSE BAdd(MulPow10(DigitsToNat(SubSeq(s, 1, Len(s) - HalfChunks(Len(s)))),
                       HalfChunks(Len(s))),
              DigitsToNat(SubSeq(s, Len(s) - HalfChunks(Len(s)) + 1, Len(s))))

NonZeroDigits(s) == {i \in 1..Len(s) : s[i] # 48}

\* the number written by the digits s, or cap if that is less, for
\* cap < 10^9
CappedNat(s, cap) ==
    LET \* the digits s without their leading zeros
        Significant ==
            IF NonZeroDigits(s) = {} THEN <<>>
            ELSE SubSeq(s, CHOOSE i \in NonZeroDigits(s) :
                               \A j \in NonZeroDigits(s) : i <= j, Len(s))
        Capped(t) == IF Len(t) > 9 \/ SmallNat(t) > cap THEN cap ELSE SmallNat(t)
    IN  Capped(Significant)

\* floor(m / 10^k), and whether the division left a remainder
RECURSIVE DivPow10(_, _, _)
DivPow10Rest(d, k) == DivPow10(d.q, k, d.inexact)

DivPow10(m, k, inexact) ==
    LET DivSmallInexact(d) == [q |-> d.q, inexact |-> inexact \/ d.r # 0]
    IN  IF m = <<>> THEN [q |-> <<>>, inexact |-> inexact]
        ELSE IF k <= DecChunk THEN DivSmallInexact(BDivSmall(m, 10^k))
        ELSE DivPow10Rest(DivPow10(m, HalfChunks(k), inexact), k - HalfChunks(k))

\* enough extra bits for the quotient by 10^k to keep more than Precision + 1
ParseGuardBits(k) == Precision + 2 + 4 * k

\* every decimal from 10^MaxDecExp on is past the largest float
MaxDecExp == 309

\* every decimal below 10^MinDecExp is less than half the least float
MinDecExp == 0 - 324

\* The float nearest to (-1)^sign * n * 10^e10, where n is written with
\* len digits
FFromDecimal(sign, n, e10, len) ==
    LET RoundDecimal(d, e) == Round(sign, d.q, e, d.inexact)
    IN  IF n = <<>> THEN FZero(sign)
        ELSE IF e10 >= MaxDecExp THEN Inf(sign)
        ELSE IF len + e10 <= MinDecExp THEN FZero(sign)
        ELSE IF e10 >= 0 THEN Round(sign, MulPow10(n, e10), 0, FALSE)
        ELSE RoundDecimal(DivPow10(BShl(n, ParseGuardBits(0 - e10)), 0 - e10, FALSE),
                          0 - ParseGuardBits(0 - e10))

ValueError == [ok |-> FALSE, val |-> FZero(0)]

\* 101 is "e", 69 is "E"
ExpMarks(body) == {i \in 1..Len(body) : body[i] \in {101, 69}}

\* where the mantissa ends: the first e or E, or the end
MantissaEnd(body) ==
    IF ExpMarks(body) = {} THEN Len(body) + 1
    ELSE CHOOSE i \in ExpMarks(body) : \A j \in ExpMarks(body) : i <= j

\* 46 is "."
Points(mant) == {i \in 1..Len(mant) : mant[i] = 46}

\* 43 is "+", 45 is "-"
HasSign(t) == t # <<>> /\ t[1] \in {43, 45}

Unsigned(t) == IF HasSign(t) THEN Tail(t) ELSE t

WellFormed(body) ==
    LET \* digits with at most one point and at least one digit
        MantissaOk(mant) ==
            /\ \A i \in 1..Len(mant) : IsDigit(mant[i]) \/ mant[i] = 46
            /\ Cardinality(Points(mant)) <= 1
            /\ \E i \in 1..Len(mant) : IsDigit(mant[i])
        \* an optional sign and at least one digit
        ExponentOk(expo) ==
            /\ Unsigned(expo) # <<>>
            /\ \A i \in 1..Len(Unsigned(expo)) : IsDigit(Unsigned(expo)[i])
    IN  /\ MantissaOk(SubSeq(body, 1, MantissaEnd(body) - 1))
        /\ MantissaEnd(body) <= Len(body) =>
               ExponentOk(SubSeq(body, MantissaEnd(body) + 1, Len(body)))

\* the float of the mantissa mant (digits and at most one point) and the
\* exponent expo (an optional sign and digits, or nothing)
ParseDecimal(sign, mant, expo) ==
    LET \* the number of digits after the point
        FractionLen ==
            IF Points(mant) = {} THEN 0 ELSE Len(mant) - (CHOOSE i \in Points(mant) : TRUE)
        \* the exponent, kept within +-cap
        ExponentVal(cap) ==
            IF expo = <<>> THEN 0
            ELSE IF expo[1] = 45 THEN 0 - CappedNat(Unsigned(expo), cap)
            ELSE CappedNat(Unsigned(expo), cap)
        \* an exponent past this makes an infinity or a zero of any
        \* mantissa of len digits
        ExponentCap(len) == MaxDecExp - MinDecExp + 2 * len
        ParseDigits(digits) ==
            FFromDecimal(sign, DigitsToNat(digits),
                         ExponentVal(ExponentCap(Len(digits))) - FractionLen, Len(digits))
    IN  ParseDigits(SelectSeq(mant, IsDigit))

ParseBody(sign, body) ==
    LET \* "inf", "infinity"
        InfNames == {<<105, 110, 102>>, <<105, 110, 102, 105, 110, 105, 116, 121>>}
        \* "nan"
        NanName == <<110, 97, 110>>
    IN  IF Lowered(body) \in InfNames THEN [ok |-> TRUE, val |-> Inf(sign)]
        ELSE IF Lowered(body) = NanName THEN [ok |-> TRUE, val |-> NaN]
        ELSE IF WellFormed(body)
        THEN [ok |-> TRUE,
              val |-> ParseDecimal(sign, SubSeq(body, 1, MantissaEnd(body) - 1),
                                   SubSeq(body, MantissaEnd(body) + 1, Len(body)))]
        ELSE ValueError

\* step 3, then the sign
ParseStripped(t) ==
    LET ParseSigned(u) == ParseBody(IF HasSign(u) /\ u[1] = 45 THEN 1 ELSE 0, Unsigned(u))
    IN  IF UnderscoresOk(t) THEN ParseSigned(SelectSeq(t, NotUnderscore)) ELSE ValueError

\* float(text)
ParseFloat(text) == ParseStripped(RStrip(LStrip(Transformed(text))))

(***************************************************************************)
(* Python values.  A dict is tagged so that a decoded JSON document that   *)
(* is not an object (here a list) can stand where a dict is expected.      *)
(* JSON integers are TLA+ integers, floats are the records above.          *)
(***************************************************************************)
PyDict(items) == [type |-> "dict", items |-> items]

PyList(items) == [type |-> "list", items |-> items]

EmptyDict == PyDict(<<>>)

\* d.get(key, {})
GetOrEmpty(d, key) == IF key \in DOMAIN d THEN d[key] ELSE EmptyDict

\* a faulty variant of update(): the value a key already has is kept
UpdatedKeepingOld(a, b) ==
    [k \in DOMAIN a \cup DOMAIN b |-> IF k \in DOMAIN a THEN a[k] ELSE b[k]]

\* the items of a after a.update(b)
Updated(a, b) ==
    [k \in DOMAIN a \cup DOMAIN b |-> IF k \in DOMAIN b THEN b[k] ELSE a[k]]

\* d after d[key] = value
WithItem(d, key, value) ==
    [k \in DOMAIN d \cup {key} |-> IF k = key THEN value ELSE d[k]]

\* defaultdict.__getitem__: the stored value, or the factory's
Lookup(d, key, default) == IF key \in DOMAIN d THEN d[key] ELSE default

(***************************************************************************)
(* The inputs.  A CSV cell is its text, a sequence of code points.         *)
(***************************************************************************)
NumSamples == 2

MaxRows == 3

SampleNames == <<"s1", "s2", "s3", "s4">>

Samples == {SampleNames[i] : i \in 1..NumSamples}

Columns == <<"fivelen", "threelen", "polyAlen", "insertlen">>

MinField == [fivelen |-> "min_fivelen", threelen |-> "min_threelen",
             polyAlen |-> "min_polyAlen", insertlen |-> "min_insertlen"]

MeanField == [fivelen |-> "mean_fivelen", threelen |-> "mean_threelen",
              polyAlen |-> "mean_polyAlen", insertlen |-> "mean_insertlen"]

StdField == [fivelen |-> "std_fivelen", threelen |-> "std_threelen",
             polyAlen |-> "std_polyAlen", insertlen |-> "std_insertlen"]

MaxField == [fivelen |-> "max_fivelen", threelen |-> "max_threelen",
             polyAlen |-> "max_polyAlen", insertlen |-> "max_insertlen"]

ColumnSet == {Columns[i] : i \in 1..Len(Columns)}

\* the two rows of the spec's scenario: 10, 5, 20, 500 and 12, 7, 22, 520
RowA == [fivelen |-> <<49, 48>>, threelen |-> <<53>>, polyAlen |-> <<50, 48>>,
         insertlen |-> <<53, 48, 48>>, strand |-> "+", primer |-> "p1"]

RowB == [fivelen |-> <<49, 50>>, threelen |-> <<55>>, polyAlen |-> <<50, 50>>,
         insertlen |-> <<53, 50, 48>>, strand |-> "-", primer |-> "p1"]

\* "0.1", "0.3", "1.5", " 3.25": 0.1 and 0.3 are not binary fractions;
\* repeated, their sums and squares round, and sum-of-squares / count -
\* mean^2 comes out negative, zero or a tiny positive number
RowC == [fivelen |-> <<48, 46, 49>>, threelen |-> <<48, 46, 51>>,
         polyAlen |-> <<49, 46, 53>>, insertlen |-> <<32, 51, 46, 50, 53>>,
         strand |-> "+", primer |-> "p2"]

\* "3", "NA", "1", "2": fivelen parses, threelen does not
RowBad == [fivelen |-> <<51>>, threelen |-> <<78, 65>>, polyAlen |-> <<49>>,
           insertlen |-> <<50>>, strand |-> "+", primer |-> "p1"]

\* "nan", "inf", "1e3", "1_000": float() takes them all
RowNonFinite == [fivelen |-> <<110, 97, 110>>, threelen |-> <<105, 110, 102>>,
                 polyAlen |-> <<49, 101, 51>>, insertlen |-> <<49, 95, 48, 48, 48>>,
                 strand |-> "+", primer |-> "p1"]

\* "1.3e154", "1e-200", "12" in Arabic-Indic digits, "7" between a tab and
\* a line feed: the square of the first is finite, the sum of two such
\* squares is not; the square of the second is less than the least float
RowHuge == [fivelen |-> <<49, 46, 51, 101, 49, 53, 52>>,
            threelen |-> <<49, 101, 45, 50, 48, 48>>,
            polyAlen |-> <<1633, 1634>>, insertlen |-> <<9, 55, 10>>,
            strand |-> "-", primer |-> "p2"]

\* "2", "1e200", "1", "2": the square of 1e200 is past the largest float
RowOverflow == [fivelen |-> <<50>>, threelen |-> <<49, 101, 50, 48, 48>>,
                polyAlen |-> <<49>>, insertlen |-> <<50>>,
                strand |-> "+", primer |-> "p1"]

\* the contents of the *.report.csv files of a whole batch
PipelineFiles == {<<>>, <<RowA, RowB>>, <<RowA, RowBad>>}

\* files that differ in length and in every statistic, for a batch of
\* several CSV files
BatchFiles == {<<>>, <<RowB>>, <<RowA, RowB>>, <<RowC, RowC, RowC>>}

AggRows == {RowA, RowB, RowC, RowBad}

RECURSIVE SeqsUpTo(_, _)
SeqsUpTo(S, n) ==
    IF n = 0 THEN {<<>>}
    ELSE LET shorter == SeqsUpTo(S, n - 1)
         IN  shorter \cup {Append(q, x) : q \in {t \in shorter : Len(t) = n - 1}, x \in S}

\* files with cells that are not finite, or whose squares are not
EdgeFiles ==
    {<<RowNonFinite>>, <<RowA, RowNonFinite>>, <<RowHuge>>, <<RowHuge, RowHuge>>,
     <<RowA, RowOverflow>>}

\* the contents of one *.report.csv file, for the aggregation alone
AggFiles == SeqsUpTo(AggRows, MaxRows) \cup EdgeFiles

\* decoded *.filter_summary.report.json documents
SummaryFull == PyDict([num_reads_fl |-> 100, num_reads_flnc |-> 90,
                       num_reads_flnc_polya |-> 80])

\* an object with a key that the CSV statistics also produce (0.5)
SummaryClash == PyDict([num_reads_fl |-> 7,
                        mean_fivelen |-> ParseFloat(<<48, 46, 53>>).val])

\* valid JSON that is not an object
SummaryList == PyList(<<1, 2>>)

\* a sequence, not a set: TLC cannot order a dict's items against a list's
Summaries == <<SummaryFull, SummaryClash, SummaryList>>

(***************************************************************************)
(* The state of one call of parse_refine_log.                              *)
(***************************************************************************)
VARIABLES
    use_filename_as_sample_name, \* config.use_filename_as_sample_name
    pc,             \* "json", "csv", "rows", "reconcile", "done", "raised"
    json_data,      \* s_name -> decoded JSON document
    csv_data,       \* s_name -> d
    csv_files,      \* s_name -> rows, of the files the CSV loop has been given
    f,              \* the CSV file of the current (or last) iteration
    reader,         \* the rows csv.DictReader has not yielded yet
    counts, sums, squared_sums, mins, maxs,   \* column -> running value
    strand_counts, primer_counts,             \* label -> count
    libm_pow,       \* a -> what the C library's pow(a, 2.0) has returned
    log,            \* the logger.error calls, in order
    data,           \* the merged map
    data_sources,   \* the add_data_source calls: <<section, s_name>>
    data_file,      \* what write_data_file was given
    exc             \* the exception that left parse_refine_log, if any

vars == <<use_filename_as_sample_name, pc, json_data, csv_data, csv_files, f, reader,
          counts, sums, squared_sums, mins, maxs, strand_counts,
          primer_counts, libm_pow, log, data, data_sources, data_file, exc>>

running_vars == <<counts, sums, squared_sums, mins, maxs, strand_counts,
                  primer_counts>>

NoFile == [s_name |-> "", rows |-> <<>>]

\* the exceptions: float() at line 40, ** at lines 43 and 56, math.sqrt
\* at line 57, update() at line 83
FloatValueError == "ValueError: could not convert string to float"

PowOverflowError == "OverflowError: Numerical result out of range"

SqrtValueError == "ValueError: math domain error"

UpdateAttributeError == "AttributeError: no attribute 'update'"

\* the seven defaultdicts as one value
Running ==
    [counts |-> counts, sums |-> sums, squared_sums |-> squared_sums,
     mins |-> mins, maxs |-> maxs, strand_counts |-> strand_counts,
     primer_counts |-> primer_counts]

\* a faulty variant of lines 27-33: the defaultdicts made once, before the
\* loop over the files, so that a file starts from what the last one left
StaleRunning == Running

\* lines 27-33: seven empty defaultdicts
FreshRunning ==
    [counts |-> <<>>, sums |-> <<>>, squared_sums |-> <<>>, mins |-> <<>>,
     maxs |-> <<>>, strand_counts |-> <<>>, primer_counts |-> <<>>]

\* a faulty variant of lines 41-45: mins a defaultdict(int) like the sums
FoldValueMinFromZero(r, column, value, square) ==
    [r EXCEPT
       !.counts = WithItem(@, column, Lookup(@, column, 0) + 1),
       !.sums = WithItem(@, column, FAdd(Lookup(@, column, FZero(0)), value)),
       !.squared_sums = WithItem(@, column, FAdd(Lookup(@, column, FZero(0)), square)),
       !.mins = WithItem(@, column, PyMin(Lookup(@, column, FZero(0)), value)),
       !.maxs = WithItem(@, column, PyMax(Lookup(@, column, NegInf), value))]

\* lines 41-45 for one column of one row; value is float(row[column]),
\* square is value**2.  sums and squared_sums start from the int 0, mins
\* from inf, maxs from -inf.
FoldValue(r, column, value, square) ==
    [r EXCEPT
       !.counts = WithItem(@, column, Lookup(@, column, 0) + 1),
       !.sums = WithItem(@, column, FAdd(Lookup(@, column, FZero(0)), value)),
       !.squared_sums = WithItem(@, column, FAdd(Lookup(@, column, FZero(0)), square)),
       !.mins = WithItem(@, column, PyMin(Lookup(@, column, PosInf), value)),
       !.maxs = WithItem(@, column, PyMax(Lookup(@, column, NegInf), value))]

\* lines 41-43 when value**2 raises: counts and sums have the value, and
\* squared_sums[column] has been read, which gives a missing key its 0
FoldCounted(r, column, value) ==
    [r EXCEPT
       !.counts = WithItem(@, column, Lookup(@, column, 0) + 1),
       !.sums = WithItem(@, column, FAdd(Lookup(@, column, FZero(0)), value)),
       !.squared_sums = WithItem(@, column, Lookup(@, column, FZero(0)))]

\* lines 39-45: the columns of one row from the i-th on, in order, as the
\* set of ways they can go: the defaultdicts after them, the exception
\* that ended them if any, and the library's table.  float() raising
\* ValueError leaves the loop with the earlier columns folded.
RECURSIVE FoldColumns(_, _, _, _)
FoldSquared(r, row, i, value, call) ==
    IF PowOverflows(value, call.val)
    THEN {[running |-> FoldCounted(r, Columns[i], value), exc |-> PowOverflowError,
           libm |-> call.libm]}
    ELSE FoldColumns(FoldValue(r, Columns[i], value, call.val), row, i + 1, call.libm)

FoldParsed(r, row, i, memo, p) ==
    IF p.ok
    THEN UNION {FoldSquared(r, row, i, p.val, call) : call \in PowCalls(memo, p.val)}
    ELSE {[running |-> r, exc |-> FloatValueError, libm |-> memo]}

FoldColumns(r, row, i, memo) ==
    IF i > Len(Columns) THEN {[running |-> r, exc |-> "", libm |-> memo]}
    ELSE FoldParsed(r, row, i, memo, ParseFloat(row[Columns[i]]))

\* lines 48-49
CountLabels(r, row) ==
    [r EXCEPT
       !.strand_counts = WithItem(@, row.strand, Lookup(@, row.strand, 0) + 1),
       !.primer_counts = WithItem(@, row.primer, Lookup(@, row.primer, 0) + 1)]

AfterColumns(c, row) ==
    IF c.exc = "" THEN [c EXCEPT !.running = CountLabels(c.running, row)] ELSE c

\* lines 38-49: the body of "for row in reader"
FoldRow(r, row, memo) == {AfterColumns(c, row) : c \in FoldColumns(r, row, 1, memo)}

\* line 55
Mean(r, column) == FDivInt(r.sums[column], r.counts[column])

\* line 56, meansq being mean**2
Variance(r, column, meansq) ==
    FSub(FDivInt(r.squared_sums[column], r.counts[column]), meansq)

\* a faulty variant of line 57: the root taken whatever the sign
StdDevUnguarded(variance) == MathSqrt(variance)

\* line 57
StdDev(variance) ==
    IF FPositive(variance) THEN MathSqrt(variance) ELSE [ok |-> TRUE, val |-> FZero(0)]

AggregateFields ==
    {MinField[c] : c \in ColumnSet} \cup {MeanField[c] : c \in ColumnSet}
    \cup {StdField[c] : c \in ColumnSet} \cup {MaxField[c] : c \in ColumnSet}
    \cup {"strand_counts", "primer_counts"}

\* lines 59-62: items with the four fields of one column
ColumnStored(items, r, c, std_dev) ==
    WithItem(WithItem(WithItem(WithItem(items, MinField[c], r.mins[c]),
                               MeanField[c], Mean(r, c)),
                      StdField[c], std_dev),
             MaxField[c], r.maxs[c])

\* lines 63-64
LabelsStored(items, r) ==
    WithItem(WithItem(items, "strand_counts", PyDict(r.strand_counts)),
             "primer_counts", PyDict(r.primer_counts))

\* lines 54-64: the columns from the i-th on, as the set of ways they can
\* go: d, the exception raised if any, and the library's table
RECURSIVE FinalizeColumns(_, _, _, _)
FinalizeRooted(r, i, items, memo, std) ==
    IF std.ok
    THEN FinalizeColumns(r, i + 1, ColumnStored(items, r, Columns[i], std.val), memo)
    ELSE {[d |-> PyDict(items), exc |-> SqrtValueError, libm |-> memo]}

FinalizeSquared(r, i, items, call) ==
    IF PowOverflows(Mean(r, Columns[i]), call.val)
    THEN {[d |-> PyDict(items), exc |-> PowOverflowError, libm |-> call.libm]}
    ELSE FinalizeRooted(r, i, items, call.libm, StdDev(Variance(r, Columns[i], call.val)))

FinalizeColumns(r, i, items, memo) ==
    IF i > Len(Columns)
    THEN {[d |-> PyDict(LabelsStored(items, r)), exc |-> "", libm |-> memo]}
    ELSE UNION {FinalizeSquared(r, i, items, call) :
                   call \in PowCalls(memo, Mean(r, Columns[i]))}

\* lines 51-64: d = dict(), filled when counts is not empty
Finalized(r, memo) ==
    IF r.counts # <<>> THEN FinalizeColumns(r, 1, <<>>, memo)
    ELSE {[d |-> EmptyDict, exc |-> "", libm |-> memo]}

\* a faulty variant of lines 52-65: csv_data[s_name] = d outside the "if"
StoredOrEmpty(cd, s_name, r, d) == WithItem(cd, s_name, d)

\* lines 52-65: csv_data after the "if counts:" block
StoredAggregate(cd, s_name, r, d) ==
    IF r.counts # <<>> THEN WithItem(cd, s_name, d) ELSE cd

\* a faulty variant of lines 68-79: the second test an "if" of its own
ErrorsLoggedBoth(flag, jd, cd) ==
    (IF flag THEN <<"IncompatibleSampleNaming">> ELSE <<>>)
    \o (IF DOMAIN jd # DOMAIN cd THEN <<"KeySetMismatch">> ELSE <<>>)

\* a faulty variant of lines 68-79: the first message logged per sample
ErrorsLoggedPerSample(flag, jd, cd) ==
    IF flag
    THEN [i \in 1..Cardinality(DOMAIN jd \cup DOMAIN cd) |-> "IncompatibleSampleNaming"]
    ELSE IF DOMAIN jd # DOMAIN cd THEN <<"KeySetMismatch">>
    ELSE <<>>

\* lines 68-79: the messages logged
ErrorsLogged(flag, jd, cd) ==
    IF flag THEN <<"IncompatibleSampleNaming">>
    ELSE IF DOMAIN jd # DOMAIN cd THEN <<"KeySetMismatch">>
    ELSE <<>>

\* a faulty variant of line 81: "&" written for "|"
MergedKeysBoth(jd, cd) == DOMAIN jd \cap DOMAIN cd

\* line 81
MergedKeys(jd, cd) == DOMAIN jd \cup DOMAIN cd

\* lines 82-83 for one s_name whose JSON document, if any, is a dict:
\* json_data.get(s_name, {}) after .update(csv_data.get(s_name, {}))
MergedRecord(jd, cd, s_name) ==
    PyDict(Updated(GetOrEmpty(jd, s_name).items, GetOrEmpty(cd, s_name).items))

\* the orders in which "for s_name in json_data.keys() | csv_data.keys()"
\* can take the keys: a set of str is iterated in hash order, which
\* differs from run to run
Orders(keys) ==
    {order \in [1..Cardinality(keys) -> keys] :
        \A i, j \in 1..Cardinality(keys) : order[i] = order[j] => i = j}

\* line 83 for the dict that line 82 has put in data: it is the very
\* dict json_data holds, so update() changes json_data too
MergeUpdated(jd, cd, d, s_name) ==
    [json_data |-> IF s_name \in DOMAIN jd
                   THEN WithItem(jd, s_name, MergedRecord(jd, cd, s_name)) ELSE jd,
     data |-> WithItem(d, s_name, MergedRecord(jd, cd, s_name))]

\* lines 81-83 from the i-th key of order on: json_data and data after
\* the loop, or as they are when update() raises AttributeError on a
\* document that is not a dict (line 82 has stored it in data by then)
RECURSIVE MergeLoop(_, _, _, _, _)
MergeStep(order, i, cd, m) == MergeLoop(order, i + 1, m.json_data, cd, m.data)

MergeLoop(order, i, jd, cd, d) ==
    IF i > Len(order) THEN [json_data |-> jd, data |-> d, exc |-> ""]
    ELSE IF GetOrEmpty(jd, order[i]).type # "dict"
    THEN [json_data |-> jd, data |-> WithItem(d, order[i], jd[order[i]]),
          exc |-> UpdateAttributeError]
    ELSE MergeStep(order, i, cd, MergeUpdated(jd, cd, d, order[i]))

\* lines 80-83
Merged(jd, cd) == {MergeLoop(order, 1, jd, cd, <<>>) : order \in Orders(MergedKeys(jd, cd))}

(***************************************************************************)
(* The steps of parse_refine_log.                                          *)
(***************************************************************************)
InitWith(flags) ==
    /\ use_filename_as_sample_name \in flags
    /\ pc = "json"
    /\ json_data = <<>>
    /\ csv_data = <<>>
    /\ csv_files = <<>>
    /\ f = NoFile
    /\ reader = <<>>
    /\ counts = <<>> /\ sums = <<>> /\ squared_sums = <<>>
    /\ mins = <<>> /\ maxs = <<>>
    /\ strand_counts = <<>> /\ primer_counts = <<>>
    /\ libm_pow = <<>>
    /\ log = <<>>
    /\ data = <<>>
    /\ data_sources = {}
    /\ data_file = <<>>
    /\ exc = ""

\* lines 22-24: one iteration of the JSON loop; find_log_files yields a
\* file of a sample not seen before, json.load decodes it
LoadJson(s_name, doc) ==
    /\ pc = "json"
    /\ s_name \notin DOMAIN json_data
    /\ json_data' = WithItem(json_data, s_name, doc)
    /\ data_sources' = data_sources \cup {<<"isoseq/refine-json", s_name>>}
    /\ UNCHANGED <<use_filename_as_sample_name, pc, csv_data, csv_files, f, reader,
                   running_vars, libm_pow, log, data, data_file, exc>>

\* line 22: find_log_files is exhausted
EndJsonLoop ==
    /\ pc = "json"
    /\ pc' = "csv"
    /\ UNCHANGED <<use_filename_as_sample_name, json_data, csv_data, csv_files, f,
                   reader, running_vars, libm_pow, log, data, data_sources, data_file,
                   exc>>

\* lines 26-36: the CSV loop takes the next file, makes the seven
\* defaultdicts anew and opens the reader on the file's rows
OpenCsv(s_name, rows) ==
    /\ pc = "csv"
    /\ s_name \notin DOMAIN csv_files
    /\ csv_files' = WithItem(csv_files, s_name, rows)
    /\ f' = [s_name |-> s_name, rows |-> rows]
    /\ reader' = rows
    /\ counts' = FreshRunning.counts
    /\ sums' = FreshRunning.sums
    /\ squared_sums' = FreshRunning.squared_sums
    /\ mins' = FreshRunning.mins
    /\ maxs' = FreshRunning.maxs
    /\ strand_counts' = FreshRunning.strand_counts
    /\ primer_counts' = FreshRunning.primer_counts
    /\ pc' = "rows"
    /\ UNCHANGED <<use_filename_as_sample_name, json_data, csv_data, libm_pow, log,
                   data, data_sources, data_file, exc>>

\* lines 37-49: one row; a cell that float() rejects raises ValueError and
\* a square past the largest float OverflowError, which nothing in
\* parse_refine_log catches
ReadRow ==
    /\ pc = "rows"
    /\ reader # <<>>
    /\ \E res \in FoldRow(Running, Head(reader), libm_pow) :
           /\ counts' = res.running.counts
           /\ sums' = res.running.sums
           /\ squared_sums' = res.running.squared_sums
           /\ mins' = res.running.mins
           /\ maxs' = res.running.maxs
           /\ strand_counts' = res.running.strand_counts
           /\ primer_counts' = res.running.primer_counts
           /\ libm_pow' = res.libm
           /\ pc' = IF res.exc = "" THEN "rows" ELSE "raised"
           /\ exc' = res.exc
    /\ reader' = Tail(reader)
    /\ UNCHANGED <<use_filename_as_sample_name, json_data, csv_data, csv_files, f,
                   log, data, data_sources, data_file>>

\* lines 51-66: the reader is exhausted; d is stored only if counts is
\* not empty.  mean**2 can raise OverflowError like value**2.
FinalizeCsv ==
    /\ pc = "rows"
    /\ reader = <<>>
    /\ \E res \in Finalized(Running, libm_pow) :
           /\ libm_pow' = res.libm
           /\ exc' = res.exc
           /\ IF res.exc = ""
              THEN /\ csv_data' = StoredAggregate(csv_data, f.s_name, Running, res.d)
                   /\ data_sources' =
                          IF counts # <<>>
                          THEN data_sources \cup {<<"isoseq/refine-csv", f.s_name>>}
                          ELSE data_sources
                   /\ pc' = "csv"
              ELSE /\ pc' = "raised"
                   /\ UNCHANGED <<csv_data, data_sources>>
    /\ UNCHANGED <<use_filename_as_sample_name, json_data, csv_files, f, reader,
                   running_vars, log, data, data_file>>

\* line 26: find_log_files is exhausted
EndCsvLoop ==
    /\ pc = "csv"
    /\ pc' = "reconcile"
    /\ UNCHANGED <<use_filename_as_sample_name, json_data, csv_data, csv_files, f,
                   reader, running_vars, libm_pow, log, data, data_sources, data_file,
                   exc>>

\* lines 68-86: log, merge, write, return.  A document without update()
\* raises AttributeError out of the loop, after the logging, with the
\* samples taken before it merged and nothing written.
Reconcile ==
    /\ pc = "reconcile"
    /\ log' = log \o ErrorsLogged(use_filename_as_sample_name, json_data, csv_data)
    /\ \E m \in Merged(json_data, csv_data) :
           /\ json_data' = m.json_data
           /\ data' = m.data
           /\ exc' = m.exc
           /\ pc' = IF m.exc = "" THEN "done" ELSE "raised"
           /\ data_file' = IF m.exc = "" THEN m.data ELSE data_file
    /\ UNCHANGED <<use_filename_as_sample_name, csv_data, csv_files, f, reader,
                   running_vars, libm_pow, data_sources>>

\* A whole batch: any subset of the samples has a JSON file, any subset a
\* CSV file, in any order.
Init == InitWith(BOOLEAN)

Next ==
    \/ \E s_name \in Samples, i \in 1..Len(Summaries) : LoadJson(s_name, Summaries[i])
    \/ EndJsonLoop
    \/ \E s_name \in Samples, rows \in PipelineFiles : OpenCsv(s_name, rows)
    \/ ReadRow
    \/ FinalizeCsv
    \/ EndCsvLoop
    \/ Reconcile

Spec == Init /\ [][Next]_vars

\* One sample, every CSV file of up to MaxRows rows.
InitAgg == InitWith({FALSE})

NextAgg ==
    \/ LoadJson(SampleNames[1], SummaryFull)
    \/ EndJsonLoop
    \/ \E rows \in AggFiles : OpenCsv(SampleNames[1], rows)
    \/ ReadRow
    \/ FinalizeCsv
    \/ EndCsvLoop
    \/ Reconcile

SpecAgg == InitAgg /\ [][NextAgg]_vars

\* The CSV loop over a batch: any subset of the samples has a CSV file, in
\* any order, each file any of BatchFiles.
InitBatch == InitWith({FALSE})

NextBatch ==
    \/ LoadJson(SampleNames[1], SummaryFull)
    \/ EndJsonLoop
    \/ \E s_name \in Samples, rows \in BatchFiles : OpenCsv(s_name, rows)
    \/ ReadRow
    \/ FinalizeCsv
    \/ EndCsvLoop
    \/ Reconcile

SpecBatch == InitBatch /\ [][NextBatch]_vars

(***************************************************************************)
(* A two-pass reference for the statistics: every value of a column is     *)
(* parsed and buffered first, then min(values), max(values),               *)
(* sum(values) / len(values) are taken over the buffer.  Squares are the   *)
(* ones the program got.                                                   *)
(***************************************************************************)

\* x**2 as the program got it, for an x the program has squared:
\* float_pow's own answer, or the library's, from its table
Squared(memo, x) ==
    IF x.cls = "finite" /\ ~IsZero(x) THEN memo[FAbs(x)]
    ELSE (CHOOSE call \in PowCalls(memo, x) : TRUE).val

\* the merge as the specification has it: for each key of either map,
\* the summary overlaid with the aggregate
MergedMap(jd, cd) == [s_name \in MergedKeys(jd, cd) |-> MergedRecord(jd, cd, s_name)]

\* some JSON document is not a dict
MergeRaises(jd, cd) == \E s_name \in DOMAIN jd : jd[s_name].type # "dict"

RowParses(row) == \A c \in ColumnSet : ParseFloat(row[c]).ok

Values(rows, column) == [i \in 1..Len(rows) |-> ParseFloat(rows[i][column]).val]

\* the squares, as the library with the table memo answers them
RefSquares(memo, values) == [i \in 1..Len(values) |-> Squared(memo, values[i])]

\* sum(values): from the int 0, left to right
RECURSIVE RefSum(_)
RefSum(values) ==
    IF values = <<>> THEN FZero(0)
    ELSE FAdd(RefSum(SubSeq(values, 1, Len(values) - 1)), values[Len(values)])

\* min(values): the first value, each later one taking its place if less
RECURSIVE RefMin(_)
RefMin(values) ==
    IF Len(values) = 1 THEN values[1]
    ELSE PyMin(RefMin(SubSeq(values, 1, Len(values) - 1)), values[Len(values)])

\* max(values)
RECURSIVE RefMax(_)
RefMax(values) ==
    IF Len(values) = 1 THEN values[1]
    ELSE PyMax(RefMax(SubSeq(values, 1, Len(values) - 1)), values[Len(values)])

RefMean(values) == FDivInt(RefSum(values), Len(values))

RefVariance(memo, values) ==
    FSub(FDivInt(RefSum(RefSquares(memo, values)), Len(values)),
         Squared(memo, RefMean(values)))

\* label -> number of rows that carry it
RefLabelCounts(rows, key) ==
    [l \in {rows[i][key] : i \in 1..Len(rows)} |->
        Cardinality({i \in 1..Len(rows) : rows[i][key] = l})]

\* the four statistics of a column from its buffered values
RefColumn(memo, values) ==
    [min |-> RefMin(values), mean |-> RefMean(values),
     std |-> StdDev(RefVariance(memo, values)).val, max |-> RefMax(values)]

\* the statistics of the four columns, in order
RefColumns(memo, rows) ==
    {<<c1, c2, c3, c4>> :
        c1 \in {RefColumn(memo, v) : v \in {Values(rows, Columns[1])}},
        c2 \in {RefColumn(memo, v) : v \in {Values(rows, Columns[2])}},
        c3 \in {RefColumn(memo, v) : v \in {Values(rows, Columns[3])}},
        c4 \in {RefColumn(memo, v) : v \in {Values(rows, Columns[4])}}}

ColumnOf(field) ==
    CHOOSE i \in 1..Len(Columns) :
        field \in {MinField[Columns[i]], MeanField[Columns[i]],
                   StdField[Columns[i]], MaxField[Columns[i]]}

\* the aggregate with the statistics cols of the four columns
RefRecord(rows, cols) ==
    PyDict([field \in AggregateFields |->
        IF field = "strand_counts" THEN PyDict(RefLabelCounts(rows, "strand"))
        ELSE IF field = "primer_counts" THEN PyDict(RefLabelCounts(rows, "primer"))
        ELSE IF field = MinField[Columns[ColumnOf(field)]] THEN cols[ColumnOf(field)].min
        ELSE IF field = MeanField[Columns[ColumnOf(field)]] THEN cols[ColumnOf(field)].mean
        ELSE IF field = StdField[Columns[ColumnOf(field)]] THEN cols[ColumnOf(field)].std
        ELSE cols[ColumnOf(field)].max])

RefAggregate(memo, rows) ==
    CHOOSE d \in {RefRecord(rows, cols) : cols \in RefColumns(memo, rows)} : TRUE

\* no value is NaN
AllNumbers(values) == \A i \in 1..Len(values) : values[i].cls # "nan"

\* the sum of the counts of a frequency table
RECURSIVE SumCounts(_)
SumCounts(table) ==
    IF DOMAIN table = {} THEN 0
    ELSE LET l == CHOOSE x \in DOMAIN table : TRUE
         IN  table[l] + SumCounts([x \in DOMAIN table \ {l} |-> table[x]])

\* x >= 0 and x is not NaN
NonNegative(x) == x.cls \in {"finite", "inf"} /\ (IsZero(x) \/ x.sign = 0)

Negative(x) == x.cls = "finite" /\ ~IsZero(x) /\ x.sign = 1

\* lines 68-83 have run: the messages are logged
ReconcileRan == pc = "done" \/ (pc = "raised" /\ exc = UpdateAttributeError)

KeySetMismatchLogged == \E i \in 1..Len(log) : log[i] = "KeySetMismatch"

\* the rows of the current file that "for row in reader" has taken
RowsRead == SubSeq(f.rows, 1, Len(f.rows) - Len(reader))

EmptyFiles == {s \in DOMAIN csv_files : csv_files[s] = <<>>}

(***************************************************************************)
(* The claims.                                                             *)
(***************************************************************************)

\* C1 (as the specification states it): a row with a numeric cell that is
\* not a number is fatal to its own sample's aggregation only; the batch
\* goes on, so parse_refine_log is never left by an exception because of
\* it.  The code has no handler around float(): the ValueError leaves
\* parse_refine_log, and every other sample and the merged map with it.
C1_MalformedRowDoesNotAbortBatch ==
    (\E i \in 1..Len(RowsRead) : ~RowParses(RowsRead[i])) => pc # "raised"

\* C2 (amended): with use_filename_as_sample_name unset, KeySetMismatch is
\* logged exactly when the JSON key set differs from the CSV key set; with
\* the flag set it is never logged, whatever the key sets.
C2_KeySetMismatchUnlessFlagged ==
    ReconcileRan =>
        (KeySetMismatchLogged
            <=> (~use_filename_as_sample_name /\ DOMAIN json_data # DOMAIN csv_data))

\* C2, a state the amendment is about: the flag is set, the key sets
\* differ, and only the naming error is in the log
C2_FlaggedMismatchIsSilent ==
    /\ ReconcileRan
    /\ use_filename_as_sample_name
    /\ DOMAIN json_data # DOMAIN csv_data
    /\ log = <<"IncompatibleSampleNaming">>

\* C2 (as the specification states it): for every value of the flag,
\* KeySetMismatch is logged exactly when the key sets differ
C2_KeySetMismatchIffDifferent ==
    ReconcileRan => (KeySetMismatchLogged <=> DOMAIN json_data # DOMAIN csv_data)

\* C3: the key set of the merged map is the union of the JSON key set and
\* the CSV key set: a sample in one source only has a record, and no
\* other sample has one.
C3_MergedKeysAreUnion ==
    pc = "done" => DOMAIN data = DOMAIN json_data \cup DOMAIN csv_data

\* C3, its case: a sample with a summary only and a sample with an
\* aggregate only, both in the merged map
C3_OneSourceEach ==
    /\ pc = "done"
    /\ \E s \in DOMAIN data : s \in DOMAIN json_data /\ s \notin DOMAIN csv_data
    /\ \E s \in DOMAIN data : s \in DOMAIN csv_data /\ s \notin DOMAIN json_data

\* the record the merge must give s_name, from the two maps as they are
\* before it: the summary's fields if any, the aggregate's if any, the
\* aggregate's value where both have the field
ProvenanceHolds(s_name, record) ==
    /\ record.type = "dict"
    /\ s_name \notin DOMAIN csv_data => record.items = json_data[s_name].items
    /\ s_name \notin DOMAIN json_data =>
           /\ record.items = csv_data[s_name].items
           /\ DOMAIN record.items = AggregateFields
    /\ (s_name \in DOMAIN json_data /\ s_name \in DOMAIN csv_data) =>
           /\ DOMAIN record.items =
                  DOMAIN json_data[s_name].items \cup DOMAIN csv_data[s_name].items
           /\ \A k \in DOMAIN csv_data[s_name].items :
                  record.items[k] = csv_data[s_name].items[k]
           /\ \A k \in DOMAIN json_data[s_name].items \ DOMAIN csv_data[s_name].items :
                  record.items[k] = json_data[s_name].items[k]

\* C4: in the merged map a sample with a summary only has exactly its
\* summary's fields, a sample with an aggregate only exactly the eighteen
\* aggregate fields, and a sample with both the union of the two, with
\* the aggregate's value for a field both have.
C4_MergedRecordProvenance ==
    [][(pc = "reconcile" /\ pc' = "done") =>
          \A s_name \in DOMAIN data' : ProvenanceHolds(s_name, data'[s_name])]_vars

\* C4, its case: a sample whose summary has a mean_fivelen of its own
\* (0.5) and whose rows give another; the merged record has the summary's
\* num_reads_fl and the aggregate's mean_fivelen
C4_AggregateWinsClash ==
    /\ pc = "done"
    /\ \E s \in DOMAIN csv_data :
           /\ s \in DOMAIN data
           /\ "num_reads_fl" \in DOMAIN data[s].items
           /\ data[s].items["num_reads_fl"] = SummaryClash.items["num_reads_fl"]
           /\ data[s].items["mean_fivelen"] = csv_data[s].items["mean_fivelen"]
           /\ data[s].items["mean_fivelen"] # SummaryClash.items["mean_fivelen"]

\* C5: a CSV file without rows leaves no entry in csv_data, and the merge
\* gives its sample the summary as it is, with no field added (no record
\* at all when it has no summary either).
C5_EmptyFileHasNoAggregate ==
    [][/\ \A s \in EmptyFiles' : s \notin DOMAIN csv_data'
       /\ (pc = "reconcile" /\ pc' = "done") =>
              \A s \in EmptyFiles :
                  IF s \in DOMAIN json_data THEN data'[s] = json_data[s]
                  ELSE s \notin DOMAIN data']_vars

\* C5, its case: the whole function has run on a sample with a summary
\* and a CSV file without rows
C5_EmptyFileMerged ==
    /\ pc = "done"
    /\ \E s \in EmptyFiles :
           /\ s \in DOMAIN data
           /\ s \notin DOMAIN csv_data
           /\ data[s] = SummaryFull

\* the stored min, max and mean of column c are those of the buffered
\* values, and so is sum of squares / count - mean^2
FoldMatches(c, values) ==
    /\ csv_data[f.s_name].items[MinField[c]] = RefMin(values)
    /\ csv_data[f.s_name].items[MaxField[c]] = RefMax(values)
    /\ csv_data[f.s_name].items[MeanField[c]] = RefMean(values)
    /\ Variance(Running, c, Squared(libm_pow, Mean(Running, c))) = RefVariance(libm_pow, values)

FoldMatchesNumbers(c, values) == AllNumbers(values) => FoldMatches(c, values)

\* C6: after the last row of a file, for each column whose values are
\* all numbers (none is NaN), the min, max and mean stored are those of
\* the two-pass reference over the file's rows, and the variance the
\* standard deviation is taken from is sum of squares / count - mean^2 of
\* the buffered values.
C6_FoldEqualsTwoPass ==
    (pc = "csv" /\ f.rows # <<>>) =>
        /\ f.s_name \in DOMAIN csv_data
        /\ \A c \in ColumnSet : FoldMatchesNumbers(c, Values(f.rows, c))

\* C6, its case: a file of three different rows has been folded; min,
\* mean and max of a column differ
C6_ThreeRowsFolded ==
    /\ pc = "csv"
    /\ f.rows = <<RowA, RowC, RowB>>
    /\ f.s_name \in DOMAIN csv_data
    /\ FLess(csv_data[f.s_name].items["min_fivelen"],
             csv_data[f.s_name].items["mean_fivelen"])
    /\ FLess(csv_data[f.s_name].items["mean_fivelen"],
             csv_data[f.s_name].items["max_fivelen"])

\* the standard deviation stored for a column is 0.0 when sum of squares
\* / count - mean^2 of its values is not strictly positive
ZeroUnlessPositive(std, variance) == ~FPositive(variance) => std = FZero(0)

\* C7: every standard deviation stored is >= 0 and not NaN; the one
\* stored for a file (seen as its last row has been folded and its
\* aggregate recorded, which no later step changes) is 0.0 whenever sum of
\* squares / count - mean^2 is not strictly positive; and math.sqrt is
\* never given a value it has no root for.
C7_StdDevDefinedAndNonNegative ==
    /\ exc # SqrtValueError
    /\ \A s \in DOMAIN csv_data, c \in ColumnSet :
           NonNegative(csv_data[s].items[StdField[c]])
    /\ (pc = "csv" /\ f.s_name \in DOMAIN csv_data) =>
           \A c \in ColumnSet :
               ZeroUnlessPositive(csv_data[f.s_name].items[StdField[c]],
                                  RefVariance(libm_pow, Values(f.rows, c)))

\* C7, its case: identical values whose variance comes out negative by
\* rounding (three rows of 0.1), reported with a standard deviation of 0.0
C7_NegativeVarianceReportedAsZero ==
    \E s \in DOMAIN csv_data, c \in ColumnSet :
        /\ \A i \in 1..Len(csv_files[s]) : csv_files[s][i][c] = csv_files[s][1][c]
        /\ Negative(RefVariance(libm_pow, Values(csv_files[s], c)))
        /\ csv_data[s].items[StdField[c]] = FZero(0)

\* C8: with use_filename_as_sample_name set, the naming error is logged
\* once for the batch, the merge is still done, and the map returned and
\* written is the merge of the two maps, in which the flag has no part.
C8_NamingErrorOnceAndMergeProceeds ==
    [][(pc = "reconcile" /\ use_filename_as_sample_name) =>
          /\ log' = <<"IncompatibleSampleNaming">>
          /\ ~MergeRaises(json_data, csv_data) =>
                 /\ pc' = "done"
                 /\ data' = MergedMap(json_data, csv_data)
                 /\ data_file' = data']_vars

\* C8, its case: the flag is set and a batch of two samples is merged,
\* after one error message
C8_FlaggedBatchMerged ==
    /\ pc = "done"
    /\ use_filename_as_sample_name
    /\ Cardinality(DOMAIN data) = 2
    /\ log = <<"IncompatibleSampleNaming">>

\* C9 (as the specification states it): the loading step checks that a
\* decoded summary is a mapping, so json_data never holds anything else.
\* The code stores whatever json.load returns; a list is only met by
\* update() at line 83, as an AttributeError.
C9_OnlyMappingsStored ==
    \A s \in DOMAIN json_data : json_data[s].type = "dict"

\* C10: the aggregate a step records for a sample is the aggregate of the
\* rows of that sample's own file alone, whatever other files were read
\* before it; its strand_counts and its primer_counts each add up to the
\* number of its own rows; and no step changes the aggregate recorded
\* for another sample.
C10_AggregateOfOwnRowsOnly ==
    [][/\ \A s \in DOMAIN csv_data : s \in DOMAIN csv_data' /\ csv_data'[s] = csv_data[s]
       /\ \A s \in DOMAIN csv_data' \ DOMAIN csv_data :
              /\ s = f.s_name
              /\ f.rows # <<>>
              /\ csv_data'[s] = RefAggregate(libm_pow', f.rows)
              /\ SumCounts(csv_data'[s].items["strand_counts"].items) = Len(f.rows)
              /\ SumCounts(csv_data'[s].items["primer_counts"].items) = Len(f.rows)]_vars

\* C10, its case: two samples with different files have both been
\* aggregated, the one with fewer rows last
C10_TwoSamplesAggregated ==
    /\ pc = "done"
    /\ \E s, t \in DOMAIN csv_data :
           /\ s # t
           /\ f.s_name = s
           /\ csv_files[s] = <<RowA, RowB>>
           /\ csv_files[t] = <<RowC, RowC, RowC>>

====
